---- MODULE Spec2Model ----
(***************************************************************************)
(* Model of resources/pty-helper.py: a PTY bridge that forks a child on a  *)
(* pseudo-terminal, relays stdin -> master and master -> stdout, applies   *)
(* 8-byte window-size records read from descriptor 3, and kills the child  *)
(* when the loop ends.  One step of the model is one statement of main().  *)
(* The child, the writer of stdin and the controller act while the bridge  *)
(* stands at select; a SIGINT may arrive at any statement after the fork.  *)
(***************************************************************************)
EXTENDS Integers, Sequences, FiniteSets, TLC

\* ---- bounds of the model ----
MaxChildBytes == 2
MaxStdinBytes == 2
MaxRecords == 1
MaxWrites == 4

\* ---- program constants ----
StdinFd == 0
CtlFd == 3
MasterFd == 4
ChildPid == 7
ReadSize == 32768
WinsizeLen == 8
SIGKILL == 9
EINTR == 4
EIO == 5
EBADF == 9
EAGAIN == 11
EPIPE == 32

\* What a call may raise.  A read raises what its handler provides for: the
\* two retryable errnos, or a fatal one.  Descriptor 1 is inherited and may be
\* non-blocking (EAGAIN) or closed by the host (EPIPE).  The master is opened
\* blocking by pty.fork: a write to it is short or whole, or fails with EIO once
\* the child is gone; TIOCSWINSZ on it does not fail.
ReadErrnos == {EINTR, EAGAIN, EIO}
StdoutErrnos == {EAGAIN, EPIPE}
MasterWriteErrnos == {EIO}

VARIABLES
  pc,          \* position of the bridge process in main()
  argc,        \* len(sys.argv)
  stderrOut,   \* messages main() has printed on sys.stderr
  pid,         \* pid returned by pty.fork() in the parent (-1 before the fork)
  forks,       \* number of children forked
  fds,         \* the watch list passed to select
  rfds,        \* the ready set returned by the last select
  buf,         \* chunk read by the master or stdin handler
  winsize,     \* bytes read from descriptor 3
  e,           \* errno of the OSError caught by the last step (0: none)
  exc,         \* exception in flight through finally / propagated out of main
  exitStatus,  \* exit status of the bridge (-1 while running)
  masterOpen,  \* the master descriptor is open
  closes,      \* number of os.close(fd) calls issued
  kills,       \* <<pid, signal>> of every os.kill issued
  ioctls,      \* descriptors a TIOCSWINSZ ioctl has been issued on
  cleanupErrs, \* the exceptions the finally block has caught and passed over
  child,       \* "none", "exec", "running", "dead"
  childWritten,\* every byte the child has written to its terminal
  ptyOut,      \* bytes readable on the master
  ptyIn,       \* bytes delivered to the child's terminal
  ptyWin,      \* <<rows, cols>> held by the kernel for the PTY
  stdinWritten,\* every byte written to the bridge's stdin
  stdinQ,      \* bytes readable on stdin
  stdinClosed, \* the writer closed stdin
  stdoutBuf,   \* bytes held by sys.stdout.buffer
  stdoutOut,   \* bytes emitted on descriptor 1
  ctlWritten,  \* every byte written to the control channel
  ctlQ,        \* bytes readable on descriptor 3
  ctlRest,     \* tail of a record the controller has written only in part
  ctlClosed,   \* the controller closed the control channel
  recs         \* every complete record written by the controller

vars == <<pc, argc, stderrOut, pid, forks, fds, rfds, buf, winsize, e, exc,
          exitStatus,
          masterOpen, closes, kills, ioctls, cleanupErrs, child, childWritten,
          ptyOut, ptyIn, ptyWin, stdinWritten, stdinQ, stdinClosed, stdoutBuf,
          stdoutOut, ctlWritten, ctlQ, ctlRest, ctlClosed, recs>>

bridgeVars == <<pc, argc, stderrOut, pid, forks, fds, rfds, buf, winsize, e,
                exc,
                exitStatus, masterOpen, closes, kills, ioctls, cleanupErrs,
                ptyIn, ptyWin, stdoutBuf, stdoutOut>>

\* ---- byte sequences ----
Min(a, b) == IF a < b THEN a ELSE b
Take(s, n) == SubSeq(s, 1, Min(n, Len(s)))
Drop(s, n) == SubSeq(s, Min(n, Len(s)) + 1, Len(s))
IsPrefix(s, t) == Len(s) <= Len(t) /\ s = SubSeq(t, 1, Len(s))

\* struct.pack("HHHH", rows, cols, r1, r2) in native (little-endian) order
U16Bytes(n) == <<n % 256, (n \div 256) % 256>>
Pack(rows, cols, r1, r2) ==
  U16Bytes(rows) \o U16Bytes(cols) \o U16Bytes(r1) \o U16Bytes(r2)

\* the kernel's reading of struct winsize: ws_row, ws_col
U16At(w, i) == w[i] + 256 * w[i + 1]
WsRow(w) == U16At(w, 1)
WsCol(w) == U16At(w, 3)

\* inputs: output bytes of the child, input bytes, records of the controller
\* the k-th byte of a stream carries the tag k, so that a dropped, duplicated,
\* reordered or changed byte changes the sequence
ChildByte(k) == 64 + k
StdinByte(k) == 96 + k
Records == {Pack(24, 80, 0, 0), Pack(24, 80, 1, 2), Pack(50, 300, 0, 0)}
SplitPoints == {4}

Transient(n) == n \in {EINTR, EAGAIN}

TryPcs == {"select", "continue", "master", "m_write", "m_flush", "stdin", "s_write",
           "ctl", "c_ioctl"}
FinallyPcs == {"kill", "close"}

Init ==
  /\ pc = "start"
  /\ argc \in {1, 2}
  /\ stderrOut = <<>>
  /\ pid = -1
  /\ forks = 0
  /\ fds = <<>>
  /\ rfds = {}
  /\ buf = <<>>
  /\ winsize = <<>>
  /\ e = 0
  /\ exc = "none"
  /\ exitStatus = -1
  /\ masterOpen = FALSE
  /\ closes = 0
  /\ kills = <<>>
  /\ cleanupErrs = {}
  /\ ioctls = {}
  /\ child = "none"
  /\ childWritten = <<>>
  /\ ptyOut = <<>>
  /\ ptyIn = <<>>
  /\ ptyWin = <<0, 0>>
  /\ stdinWritten = <<>>
  /\ stdinQ = <<>>
  /\ stdinClosed = FALSE
  /\ stdoutBuf = <<>>
  /\ stdoutOut = <<>>
  /\ ctlWritten = <<>>
  /\ ctlQ = <<>>
  /\ ctlRest = <<>>
  /\ ctlClosed = FALSE
  /\ recs = <<>>

\* ---- groups of variables left alone by most steps ----
idVars == <<argc, stderrOut>>
procVars == <<pid, forks, masterOpen, closes, kills, cleanupErrs, exitStatus,
              child>>
outVars == <<childWritten, ptyOut, stdoutBuf, stdoutOut>>
inVars == <<stdinWritten, stdinQ, stdinClosed, ptyIn>>
ctlVars == <<ctlWritten, ctlQ, ctlRest, ctlClosed, recs>>
winVars == <<winsize, ptyWin, ioctls>>

Range(s) == {s[i] : i \in 1..Len(s)}

\* a descriptor is readable when data is queued on it or its writer is gone
Readable(f) ==
  IF f = MasterFd THEN ptyOut # <<>> \/ child = "dead"
  ELSE IF f = StdinFd THEN stdinQ # <<>> \/ stdinClosed
  ELSE ctlQ # <<>> \/ ctlClosed

\* a master handler that retries the terminal-gone error as well
MasterExceptRetryEio(n) ==
  IF Transient(n) \/ n = EIO THEN "continue" ELSE "kill"

\* the except clauses of the three handlers: next position for errno n
MasterExcept(n) ==
  IF Transient(n) THEN "continue" ELSE IF n = EIO THEN "kill" ELSE "kill"
StdinExcept(n) == IF Transient(n) THEN "continue" ELSE "kill"
\* a control handler that retries every error
CtlExceptRetryAll(n) == "continue"
CtlExcept(n) == IF Transient(n) THEN "continue" ELSE "kill"

\* ---- main(): argument check and fork ----
UsageMsg == "Usage: pty-helper.py <command> [args...]"

Usage ==
  /\ pc = "start" /\ argc < 2
  /\ pc' = "done" /\ exc' = "SystemExit" /\ exitStatus' = 1
  /\ stderrOut' = Append(stderrOut, UsageMsg)
  /\ UNCHANGED <<argc, pid, forks, masterOpen, closes, kills, cleanupErrs,
                 child, fds, rfds, buf, e, outVars, inVars, ctlVars, winVars>>

\* a main() without the argument check
SetupUnchecked ==
  /\ pc = "start"
  /\ pc' = "fork"
  /\ UNCHANGED <<idVars, procVars, fds, rfds, buf, e, exc, outVars, inVars,
                 ctlVars, winVars>>

Setup ==
  /\ pc = "start" /\ argc >= 2
  /\ pc' = "fork"
  /\ UNCHANGED <<idVars, procVars, fds, rfds, buf, e, exc, outVars, inVars,
                 ctlVars, winVars>>

Fork ==
  /\ pc = "fork"
  /\ pid' = ChildPid /\ forks' = forks + 1 /\ masterOpen' = TRUE
  /\ child' = "exec"
  /\ pc' = "parent"
  /\ UNCHANGED <<idVars, closes, kills, cleanupErrs, exitStatus, fds, rfds,
                 buf, e, exc, outVars, inVars, ctlVars, winVars>>

\* a bridge that never watches the control channel
WatchInitNoControl ==
  /\ pc = "parent"
  /\ fds' = <<MasterFd, StdinFd>>
  /\ pc' = "select"
  /\ UNCHANGED <<idVars, procVars, rfds, buf, e, exc, outVars, inVars,
                 ctlVars, winVars>>

WatchInit ==
  /\ pc = "parent"
  /\ fds' = <<MasterFd, StdinFd, CtlFd>>
  /\ pc' = "select"
  /\ UNCHANGED <<idVars, procVars, rfds, buf, e, exc, outVars, inVars,
                 ctlVars, winVars>>

\* ---- the loop ----
\* rfds, buf, winsize and e are locals of one iteration: each is assigned
\* again before it is next read, so the model clears buf and winsize when the
\* handler that read them ends and rfds when the iteration ends.
EndOfIteration(p) == p \in {"select", "continue", "kill"}
Ready(p) == IF EndOfIteration(p) THEN {} ELSE rfds

SelectReady ==
  /\ pc = "select"
  /\ {f \in Range(fds) : Readable(f)} # {}
  /\ rfds' = {f \in Range(fds) : Readable(f)}
  /\ e' = 0
  /\ pc' = "master"
  /\ UNCHANGED <<idVars, procVars, fds, buf, exc, outVars, inVars, ctlVars,
                 winVars>>

\* select.select fails (EBADF for a watched descriptor that is not open,
\* EINVAL, ENOMEM): the OSError is raised inside the outer try, which has no
\* except clause for it: finally runs, then the error leaves main
SelectError ==
  /\ pc = "select"
  /\ e' = EBADF /\ exc' = "OSError"
  /\ pc' = "kill"
  /\ UNCHANGED <<idVars, procVars, fds, rfds, buf, outVars, inVars, ctlVars,
                 winVars>>

MasterSkip ==
  /\ pc = "master" /\ MasterFd \notin rfds
  /\ pc' = "stdin"
  /\ UNCHANGED <<idVars, procVars, fds, rfds, buf, e, exc, outVars, inVars,
                 ctlVars, winVars>>

MasterRead ==
  /\ pc = "master" /\ MasterFd \in rfds
  /\ \/ /\ ptyOut # <<>>
        /\ buf' = Take(ptyOut, ReadSize)
        /\ ptyOut' = Drop(ptyOut, ReadSize)
        /\ e' = 0 /\ pc' = "m_write"
     \/ /\ ptyOut = <<>> /\ child = "dead"
        /\ buf' = <<>> /\ e' = 0 /\ pc' = "kill"
        /\ UNCHANGED ptyOut
     \/ /\ \E n \in ReadErrnos :
             /\ n = EIO => (ptyOut = <<>> /\ child = "dead")
             /\ e' = n /\ pc' = MasterExcept(n)
        /\ UNCHANGED <<buf, ptyOut>>
  /\ rfds' = Ready(pc')
  /\ UNCHANGED <<idVars, procVars, fds, exc, childWritten, stdoutBuf,
                 stdoutOut, inVars, ctlVars, winVars>>

\* sys.stdout.buffer.write: on an error the buffer has taken k bytes of buf
MasterWrite ==
  /\ pc = "m_write"
  /\ \/ /\ stdoutBuf' = stdoutBuf \o buf
        /\ e' = 0 /\ pc' = "m_flush"
        /\ UNCHANGED buf
     \/ /\ \E n \in StdoutErrnos : \E k \in 0..(Len(buf) - 1) :
             /\ stdoutBuf' = stdoutBuf \o Take(buf, k)
             /\ e' = n /\ pc' = MasterExcept(n)
        /\ buf' = <<>>
  /\ rfds' = Ready(pc')
  /\ UNCHANGED <<idVars, procVars, fds, exc, childWritten, ptyOut,
                 stdoutOut, inVars, ctlVars, winVars>>

\* sys.stdout.buffer.flush: on an error k bytes have left, the rest stays
MasterFlush ==
  /\ pc = "m_flush"
  /\ \/ /\ stdoutOut' = stdoutOut \o stdoutBuf
        /\ stdoutBuf' = <<>>
        /\ e' = 0 /\ pc' = "stdin"
     \/ \E n \in StdoutErrnos : \E k \in 0..(Len(stdoutBuf) - 1) :
          /\ stdoutOut' = stdoutOut \o Take(stdoutBuf, k)
          /\ stdoutBuf' = Drop(stdoutBuf, k)
          /\ e' = n /\ pc' = MasterExcept(n)
  /\ buf' = <<>>
  /\ rfds' = Ready(pc')
  /\ UNCHANGED <<idVars, procVars, fds, exc, childWritten, ptyOut,
                 inVars, ctlVars, winVars>>

StdinSkip ==
  /\ pc = "stdin" /\ StdinFd \notin rfds
  /\ pc' = "ctl"
  /\ UNCHANGED <<idVars, procVars, fds, rfds, buf, e, exc, outVars, inVars,
                 ctlVars, winVars>>

StdinRead ==
  /\ pc = "stdin" /\ StdinFd \in rfds
  /\ \/ /\ stdinQ # <<>>
        /\ buf' = Take(stdinQ, ReadSize)
        /\ stdinQ' = Drop(stdinQ, ReadSize)
        /\ e' = 0 /\ pc' = "s_write"
     \/ /\ stdinQ = <<>> /\ stdinClosed
        /\ buf' = <<>> /\ e' = 0 /\ pc' = "kill"
        /\ UNCHANGED stdinQ
     \/ /\ \E n \in ReadErrnos : e' = n /\ pc' = StdinExcept(n)
        /\ UNCHANGED <<buf, stdinQ>>
  /\ rfds' = Ready(pc')
  /\ UNCHANGED <<idVars, procVars, fds, exc, outVars, stdinWritten,
                 stdinClosed, ptyIn, ctlVars, winVars>>

\* os.write(fd, buf) returns the number of bytes written, which the code
\* discards: w is what a write of b delivers
Written(b, n) == Take(b, n)

StdinWrite ==
  /\ pc = "s_write"
  /\ \/ \E n \in 1..Len(buf) :
          /\ ptyIn' = ptyIn \o Written(buf, n)
          /\ e' = 0 /\ pc' = "ctl"
     \/ /\ child = "dead"
        /\ \E n \in MasterWriteErrnos : e' = n /\ pc' = StdinExcept(n)
        /\ UNCHANGED ptyIn
  /\ buf' = <<>>
  /\ rfds' = Ready(pc')
  /\ UNCHANGED <<idVars, procVars, fds, exc, outVars, stdinWritten,
                 stdinQ, stdinClosed, ctlVars, winVars>>

CtlSkip ==
  /\ pc = "ctl" /\ CtlFd \notin rfds
  /\ pc' = "select"
  /\ rfds' = Ready(pc')
  /\ UNCHANGED <<idVars, procVars, fds, buf, e, exc, outVars, inVars,
                 ctlVars, winVars>>

\* a closed control channel treated like a closed stdin: the loop ends
CtlDispatchEofFatal(w) ==
  IF Len(w) = 0 THEN <<"kill", fds>>
  ELSE IF Len(w) = WinsizeLen THEN <<"c_ioctl", fds>>
  ELSE <<"select", fds>>

\* next position and watch list after os.read(3, 8) returned w
CtlDispatch(w) ==
  IF Len(w) = 0 THEN <<"select", <<MasterFd, StdinFd>>>>
  ELSE IF Len(w) = WinsizeLen THEN <<"c_ioctl", fds>>
  ELSE <<"select", fds>>

CtlRead ==
  /\ pc = "ctl" /\ CtlFd \in rfds
  /\ \/ /\ ctlQ' = Drop(ctlQ, WinsizeLen)
        /\ pc' = CtlDispatch(Take(ctlQ, WinsizeLen))[1]
        /\ fds' = CtlDispatch(Take(ctlQ, WinsizeLen))[2]
        /\ winsize' = IF pc' = "c_ioctl" THEN Take(ctlQ, WinsizeLen) ELSE <<>>
        /\ e' = 0
     \/ /\ \E n \in ReadErrnos : e' = n /\ pc' = CtlExcept(n)
        /\ UNCHANGED <<winsize, ctlQ, fds>>
  /\ rfds' = Ready(pc')
  /\ UNCHANGED <<idVars, procVars, buf, exc, outVars, inVars,
                 ctlWritten, ctlRest, ctlClosed, recs, ptyWin, ioctls>>

\* rows and columns taken from the last two fields of the record
ResizeFromReserved(w) == <<U16At(w, 5), U16At(w, 7)>>

\* fcntl.ioctl(fd, TIOCSWINSZ, winsize): the kernel stores ws_row, ws_col
Resize(w) == <<WsRow(w), WsCol(w)>>

CtlIoctl ==
  /\ pc = "c_ioctl"
  /\ ioctls' = ioctls \cup {MasterFd}
  /\ ptyWin' = Resize(winsize)
  /\ e' = 0 /\ pc' = "select"
  /\ winsize' = <<>>
  /\ rfds' = Ready(pc')
  /\ UNCHANGED <<idVars, procVars, fds, buf, exc, outVars, inVars,
                 ctlVars>>

\* the continue statement of an except clause: back to the readiness wait
Continue ==
  /\ pc = "continue"
  /\ e' = 0
  /\ pc' = "select"
  /\ UNCHANGED <<idVars, procVars, fds, rfds, buf, exc, outVars, inVars,
                 ctlVars, winVars>>

\* ---- finally ----
\* what os.kill(pid, 9) may raise: the child is never waited for, so its pid
\* stays valid as a zombie unless the host has SIGCHLD ignored, in which case
\* a child that has exited is reaped at once and the pid is gone
KillRaises ==
  IF child = "dead" THEN {"none", "ProcessLookupError"} ELSE {"none"}

\* what os.close(fd) may raise
CloseRaises == {"none", "OSError"}

\* a cleanup whose kill has no except clause
KillExceptPropagates(x) ==
  IF x = "none" THEN <<"close", exc>> ELSE <<"done", x>>

\* try: os.kill(pid, 9) / except ProcessLookupError: pass
\* <<next position, exception in flight>> after the statement raised x
KillExcept(x) ==
  IF x \in {"none", "ProcessLookupError"} THEN <<"close", exc>>
  ELSE <<"done", x>>

\* try: os.close(fd) / except OSError: pass
CloseExcept(x) ==
  IF x \in {"none", "OSError"} THEN <<"done", exc>> ELSE <<"done", x>>

Caught(x) == IF x = "none" THEN {} ELSE {x}

Kill ==
  /\ pc = "kill"
  /\ kills' = Append(kills, <<pid, SIGKILL>>)
  /\ child' = "dead"
  /\ e' = 0
  /\ \E x \in KillRaises :
       /\ pc' = KillExcept(x)[1]
       /\ exc' = KillExcept(x)[2]
       /\ cleanupErrs' = IF pc' = "close" THEN cleanupErrs \cup Caught(x)
                         ELSE cleanupErrs
  /\ UNCHANGED <<idVars, pid, forks, masterOpen, closes, exitStatus, fds, rfds,
                 buf, outVars, inVars, ctlVars, winVars>>

Close ==
  /\ pc = "close"
  /\ closes' = closes + 1
  /\ masterOpen' = FALSE
  /\ \E x \in CloseRaises :
       /\ pc' = CloseExcept(x)[1]
       /\ exc' = CloseExcept(x)[2]
       /\ cleanupErrs' = IF exc' = exc THEN cleanupErrs \cup Caught(x)
                         ELSE cleanupErrs
  /\ exitStatus' = IF exc' = "none" THEN 0 ELSE 1
  /\ UNCHANGED <<idVars, pid, forks, kills, child, fds, rfds, buf, e,
                 outVars, inVars, ctlVars, winVars>>

\* ---- SIGINT: KeyboardInterrupt raised at the current statement ----
Interrupt ==
  /\ pc \in {"parent"} \cup TryPcs \cup FinallyPcs
  /\ IF pc \in TryPcs
       THEN pc' = "kill" /\ UNCHANGED <<exc, exitStatus>>
       ELSE pc' = "done" /\ exc' = "KeyboardInterrupt" /\ exitStatus' = 1
  /\ e' = 0 /\ rfds' = {} /\ buf' = <<>> /\ winsize' = <<>>
  /\ UNCHANGED <<idVars, pid, forks, masterOpen, closes, kills, cleanupErrs,
                 child, fds, outVars, inVars, ctlVars, ptyWin, ioctls>>

Bridge ==
  \/ Usage \/ Setup \/ Fork \/ WatchInit
  \/ SelectReady \/ SelectError
  \/ MasterSkip \/ MasterRead \/ MasterWrite \/ MasterFlush
  \/ StdinSkip \/ StdinRead \/ StdinWrite
  \/ CtlSkip \/ CtlRead \/ CtlIoctl \/ Continue
  \/ Kill \/ Close

\* ---- the environment ----
\* The child, the writer of stdin and the controller act while the bridge
\* stands at the readiness wait.  A write or a close that lands between the
\* return of select and the next select is seen by the bridge exactly as one
\* that lands at that next select: the ready set is sampled by select alone,
\* and a read takes whatever is queued.
EnvTurn == pc = "select"

\* bytes and records written to the bridge so far, over the three channels
Writes == Len(childWritten) + Len(stdinWritten) + Len(recs)

\* the process in which pty.fork() returned 0 stands at os.execve (line 37).
\* What that process has done of the statements after line 37 once execve
\* has raised: <<kills issued, closes issued>> with its own pid = 0.
\* A child that caught the error and fell through into the loop:
ExecFailedFallsThrough == <<Append(kills, <<0, SIGKILL>>), closes + 1>>

\* the OSError leaves main() at line 37, which is outside the try: the child
\* runs nothing of lines 39-92 and exits, closing its terminal
ExecFailed == <<kills, closes>>

ChildExecOk ==
  /\ EnvTurn /\ child = "exec"
  /\ child' = "running"
  /\ UNCHANGED <<bridgeVars, childWritten, ptyOut, stdinWritten,
                 stdinQ, stdinClosed, ctlVars>>

ChildExecFails ==
  /\ EnvTurn /\ child = "exec"
  /\ child' = "dead"
  /\ kills' = ExecFailed[1] /\ closes' = ExecFailed[2]
  /\ UNCHANGED <<pc, idVars, pid, forks, fds, rfds, buf, winsize, e, exc,
                 exitStatus, masterOpen, ioctls, cleanupErrs, ptyIn, ptyWin,
                 stdoutBuf, stdoutOut, childWritten, ptyOut, stdinWritten,
                 stdinQ, stdinClosed, ctlVars>>

ChildWrite ==
  /\ EnvTurn /\ child = "running"
  /\ Len(childWritten) < MaxChildBytes /\ Writes < MaxWrites
  /\ LET b == ChildByte(Len(childWritten) + 1) IN
       /\ childWritten' = Append(childWritten, b)
       /\ ptyOut' = Append(ptyOut, b)
  /\ UNCHANGED <<bridgeVars, child, stdinWritten, stdinQ,
                 stdinClosed, ctlVars>>

ChildExit ==
  /\ EnvTurn /\ child = "running"
  /\ child' = "dead"
  /\ UNCHANGED <<bridgeVars, childWritten, ptyOut, stdinWritten,
                 stdinQ, stdinClosed, ctlVars>>

StdinSend ==
  /\ EnvTurn /\ ~stdinClosed
  /\ Len(stdinWritten) < MaxStdinBytes /\ Writes < MaxWrites
  /\ LET b == StdinByte(Len(stdinWritten) + 1) IN
       /\ stdinWritten' = Append(stdinWritten, b)
       /\ stdinQ' = Append(stdinQ, b)
  /\ UNCHANGED <<bridgeVars, child, childWritten, ptyOut,
                 stdinClosed, ctlVars>>

StdinClose ==
  /\ EnvTurn /\ ~stdinClosed
  /\ stdinClosed' = TRUE
  /\ UNCHANGED <<bridgeVars, child, childWritten, ptyOut,
                 stdinWritten, stdinQ, ctlVars>>

\* the controller writes a record whole, or its first k bytes and the rest later
CtlSend ==
  /\ EnvTurn /\ ~ctlClosed /\ ctlRest = <<>>
  /\ Len(recs) < MaxRecords /\ Writes < MaxWrites
  /\ \E r \in Records :
       /\ recs' = Append(recs, r)
       /\ ctlWritten' = ctlWritten \o r
       /\ ctlQ' = ctlQ \o r
  /\ UNCHANGED <<bridgeVars, child, childWritten, ptyOut,
                 stdinWritten, stdinQ, stdinClosed, ctlRest, ctlClosed>>

CtlSendHead ==
  /\ EnvTurn /\ ~ctlClosed /\ ctlRest = <<>>
  /\ Len(recs) < MaxRecords /\ Writes < MaxWrites
  /\ \E r \in Records : \E k \in SplitPoints :
       /\ ctlWritten' = ctlWritten \o Take(r, k)
       /\ ctlQ' = ctlQ \o Take(r, k)
       /\ ctlRest' = Drop(r, k)
       /\ recs' = Append(recs, r)
  /\ UNCHANGED <<bridgeVars, child, childWritten, ptyOut,
                 stdinWritten, stdinQ, stdinClosed, ctlClosed>>

CtlSendRest ==
  /\ EnvTurn /\ ctlRest # <<>>
  /\ ctlWritten' = ctlWritten \o ctlRest
  /\ ctlQ' = ctlQ \o ctlRest
  /\ ctlRest' = <<>>
  /\ UNCHANGED <<bridgeVars, child, childWritten, ptyOut,
                 stdinWritten, stdinQ, stdinClosed, ctlClosed, recs>>

CtlClose ==
  /\ EnvTurn /\ ~ctlClosed /\ ctlRest = <<>>
  /\ ctlClosed' = TRUE
  /\ UNCHANGED <<bridgeVars, child, childWritten, ptyOut,
                 stdinWritten, stdinQ, stdinClosed, ctlWritten, ctlQ, ctlRest,
                 recs>>

\* descriptor 3 may be a FIFO: after its last writer has closed it, another
\* writer may open it and write again
CtlReopen ==
  /\ EnvTurn /\ ctlClosed
  /\ Len(recs) < MaxRecords /\ Writes < MaxWrites
  /\ ctlClosed' = FALSE
  /\ UNCHANGED <<bridgeVars, child, childWritten, ptyOut,
                 stdinWritten, stdinQ, stdinClosed, ctlWritten, ctlQ, ctlRest,
                 recs>>

Env ==
  \/ ChildExecOk \/ ChildExecFails \/ ChildWrite \/ ChildExit
  \/ StdinSend \/ StdinClose
  \/ CtlSend \/ CtlSendHead \/ CtlSendRest \/ CtlClose \/ CtlReopen

Next == Bridge \/ Env \/ Interrupt

Spec == Init /\ [][Next]_vars

\* the bridge runs whenever one of its statements can be executed
FairSpec == Spec /\ WF_vars(Bridge)

TypeOK ==
  /\ pc \in {"start", "fork", "parent", "done"} \cup TryPcs \cup FinallyPcs
  /\ exc \in {"none", "SystemExit", "OSError", "KeyboardInterrupt"}
  /\ rfds \subseteq {MasterFd, StdinFd, CtlFd}
  /\ Len(childWritten) <= MaxChildBytes
  /\ Len(stdinWritten) <= MaxStdinBytes
  /\ Len(recs) <= MaxRecords

\* ---- what the bridge has taken off each channel so far ----
MasterConsumed == Take(childWritten, Len(childWritten) - Len(ptyOut))
StdinConsumed == Take(stdinWritten, Len(stdinWritten) - Len(stdinQ))
CtlConsumed == Len(ctlWritten) - Len(ctlQ)

\* C1: once the child has been forked, the bridge never exits without having
\* run cleanup exactly once: one SIGKILL to the child's pid, and then one close
\* of the master; the master is never closed before the kill has been sent.
C1_CleanupOnEveryExit ==
  /\ (pc = "done" /\ forks > 0) =>
       (kills = <<(<<ChildPid, SIGKILL>>)>> /\ closes = 1)
  /\ closes > 0 => Len(kills) > 0

\* C2: once stdin is closed while the loop runs, the loop ends and the child is
\* sent the kill, whatever the other channels do.
C2_StdinEofEndsSession ==
  (stdinClosed /\ pc \in TryPcs) ~> (pc \notin TryPcs /\ Len(kills) > 0)

\* C3: the bytes delivered to the child's terminal are the bytes written to
\* stdin, in order: they are always a prefix of what was written, and once the
\* stdin handler has finished with a chunk every byte read so far is delivered.
C3_InputTransparent ==
  /\ IsPrefix(ptyIn, stdinWritten)
  /\ pc \in {"select", "continue", "ctl", "master"} => ptyIn = StdinConsumed

\* C4: in every reachable state the bytes emitted on stdout are a prefix of the
\* bytes the child has written to its terminal.
C4_OutputTransparent == IsPrefix(stdoutOut, childWritten)

\* C5: a zero-length read on descriptor 3 does not end the loop or trigger
\* cleanup; it only takes descriptor 3 off the watch list, which changes in no
\* other way; afterwards select still reports the master and stdin, and a stdin
\* chunk is still written to the master and a master chunk still flushed to
\* stdout.
C5_CtlClosureNonFatal ==
  [][ /\ (CtlRead /\ ctlQ = <<>> /\ e' = 0) =>
           /\ pc' = "select"
           /\ fds' = <<MasterFd, StdinFd>>
           /\ UNCHANGED <<kills, closes, masterOpen, exc, child, ptyIn,
                          ptyWin, stdoutBuf, stdoutOut>>
      /\ (fds' # fds /\ pc # "parent") => (pc = "ctl" /\ ctlQ = <<>>)
      /\ (SelectReady /\ CtlFd \notin Range(fds)) =>
           rfds' = {f \in {MasterFd, StdinFd} : Readable(f)}
      /\ (StdinWrite /\ e' = 0 /\ CtlFd \notin Range(fds)) =>
           (pc' = "ctl" /\ Len(ptyIn') > Len(ptyIn))
      /\ (MasterFlush /\ e' = 0 /\ CtlFd \notin Range(fds)) =>
           (pc' = "stdin" /\ stdoutOut' = stdoutOut \o stdoutBuf)
    ]_vars

\* C5 witness: after descriptor 3 was taken off the watch list, the loop is
\* forwarding a stdin chunk and no kill has been sent.
C5_Witness ==
  /\ fds = <<MasterFd, StdinFd>> /\ pc = "s_write" /\ buf # <<>>
  /\ ctlClosed /\ kills = <<>>

\* C6: once the bridge has consumed the bytes of the k-th complete record from
\* descriptor 3, the PTY window size is that record's rows and columns.
C6_EveryRecordApplied ==
  \A k \in 1..Len(recs) :
    (pc = "select" /\ ctlRest = <<>> /\ CtlConsumed = WinsizeLen * k)
      => ptyWin = <<WsRow(recs[k]), WsCol(recs[k])>>

\* C7: a read of exactly 8 bytes on descriptor 3 goes on to the ioctl with those
\* bytes; the ioctl sets the window size to the first two 16-bit fields, whatever
\* the last two are; a read of 0 to 7 bytes does not reach the ioctl and leaves
\* the window size alone; the window size changes in no other step; the ioctl
\* is only ever issued on the master.
C7_ResizeIffEightBytes ==
  [][ /\ (CtlRead /\ e' = 0 /\ Len(ctlQ) >= WinsizeLen) =>
           (pc' = "c_ioctl" /\ winsize' = SubSeq(ctlQ, 1, WinsizeLen))
      /\ (CtlRead /\ e' = 0 /\ Len(ctlQ) < WinsizeLen) =>
           (pc' # "c_ioctl" /\ ptyWin' = ptyWin /\ ioctls' = ioctls)
      /\ CtlIoctl =>
           /\ Len(winsize) = WinsizeLen
           /\ ptyWin' = <<winsize[1] + 256 * winsize[2],
                          winsize[3] + 256 * winsize[4]>>
           /\ ioctls' = ioctls \cup {MasterFd}
      /\ (ptyWin' # ptyWin \/ ioctls' # ioctls) => CtlIoctl
      /\ (pc' = "c_ioctl" /\ pc # "c_ioctl") => CtlRead
    ]_vars

\* C7 witness: the record for 24 rows and 80 columns with reserved fields 1
\* and 2 has been read whole and applied.
C7_Witness ==
  /\ recs = <<Pack(24, 80, 1, 2)>> /\ ptyWin = <<24, 80>>
  /\ ioctls = {MasterFd} /\ pc = "select"

\* C8: a KeyboardInterrupt raised after the fork never leaves main.
C8_InterruptSuppressed == exc # "KeyboardInterrupt"

\* C9: no OSError of the session leaves main: the bridge never exits with one.
C9_NothingReRaised == pc = "done" => exc # "OSError"

\* C10: a step that ends in the continue of an except clause loses nothing
\* that was read: the chunk read from the master is in the stdout buffer, the
\* chunk read from stdin has been written to the master.
C10_TransientInvisible ==
  [][ pc' = "continue" =>
        /\ pc = "m_write" => stdoutBuf' = stdoutBuf \o buf
        /\ pc = "m_flush" => stdoutOut' \o stdoutBuf' = stdoutOut \o stdoutBuf
        /\ pc = "s_write" => ptyIn' = ptyIn \o buf
        /\ pc = "c_ioctl" => ptyWin' = Resize(winsize)
    ]_vars

\* C11: cleanup tolerates targets that are already gone.  The step that
\* issues the kill goes on to the close of the master and raises nothing,
\* also when the child has exited and its pid is gone (ProcessLookupError);
\* the step that issues the close ends main() and raises nothing, also when
\* the close fails (OSError).  Either step leaves the exception in flight,
\* and with it the exit status, as it found them.
C11_CleanupToleratesGone ==
  [][ /\ Len(kills') > Len(kills) =>
           /\ pc = "kill" /\ pc' = "close"
           /\ exc' = exc /\ masterOpen' = masterOpen /\ closes' = closes
      /\ closes' # closes =>
           /\ pc = "close" /\ pc' = "done"
           /\ closes' = closes + 1 /\ ~masterOpen'
           /\ exc' = exc
           /\ exitStatus' = IF exc = "none" THEN 0 ELSE 1
      /\ cleanupErrs' # cleanupErrs => exc' = exc ]_vars

\* both targets were gone, and main() returned normally all the same
C11_Witness ==
  /\ pc = "done" /\ exc = "none" /\ exitStatus = 0
  /\ cleanupErrs = {"ProcessLookupError", "OSError"}
  /\ Len(kills) = 1 /\ closes = 1

\* C12: started without a command argument, the bridge prints the usage
\* message on stderr and exits with status 1; it allocates no PTY, forks no
\* child, and runs neither the loop nor the cleanup.  Conversely a child is
\* forked at most once, and only when the argument check has passed.
C12_UsageError ==
  /\ argc < 2 =>
       /\ pc \in {"start", "done"}
       /\ forks = 0 /\ pid = -1 /\ ~masterOpen /\ child = "none"
       /\ fds = <<>> /\ kills = <<>> /\ closes = 0
       /\ pc = "done" =>
            /\ stderrOut = <<UsageMsg>>
            /\ exc = "SystemExit" /\ exitStatus = 1
  /\ forks <= 1
  /\ forks > 0 => argc >= 2
  /\ argc >= 2 => stderrOut = <<>>

C12_Witness ==
  /\ argc < 2 /\ pc = "done" /\ exitStatus = 1 /\ stderrOut = <<UsageMsg>>

WatchAll == <<MasterFd, StdinFd, CtlFd>>
WatchData == <<MasterFd, StdinFd>>
CleanupPcs == FinallyPcs \cup {"done"}

\* C13: lifetime of the master descriptor.  From the fork until cleanup the
\* master is open, and it is open wherever the loop can read it, write it or
\* resize it; it is closed exactly once, at cleanup, and not before the kill
\* has been issued; once it is closed the bridge is past every statement that
\* reads, writes or resizes it.
C13_MasterLifetime ==
  /\ (forks > 0 /\ closes = 0 /\ pc # "done") => masterOpen
  /\ pc \in TryPcs => masterOpen
  /\ closes <= 1
  /\ closes > 0 => (Len(kills) > 0 /\ ~masterOpen /\ pc = "done")
  /\ (pc = "done" /\ forks > 0) => (closes = 1 /\ ~masterOpen)

\* C14 as stated: a cycle in which the master was reported ready while the
\* child had closed its terminal never returns to the readiness wait from
\* the end of its handlers: the loop terminates in that cycle.
C14_EndsInFirstReadyCycle ==
  [][ (pc \in {"ctl", "c_ioctl"} /\ pc' = "select")
        => ~(MasterFd \in rfds /\ child = "dead") ]_vars

\* C14: a failed launch has no separate signal.  The exit of the child, by
\* a failed exec or otherwise, changes nothing in the bridge; the wait reports
\* the master ready from then on, whatever stdin and the control channel are
\* doing.  Once the child has closed its terminal and the output it left on
\* the master has been drained, the read of the master ends the loop in that
\* cycle (zero bytes or EIO), forwarding nothing more, unless it raises a
\* retryable error, which repeats the wait; output still pending is read and
\* forwarded first and does not end the loop.
C14_LaunchFailureSeenAsEof ==
  [][ /\ (child # "dead" /\ child' = "dead" /\ pc' = pc)
           => UNCHANGED bridgeVars
      /\ (pc = "select" /\ pc' = "master" /\ child = "dead")
           => (MasterFd \in rfds'
               /\ rfds' = {f \in Range(fds) : Readable(f)})
      /\ (pc = "master" /\ MasterFd \in rfds /\ child = "dead"
          /\ ptyOut = <<>> /\ pc' # pc)
           => /\ pc' = "kill" \/ (pc' = "continue" /\ Transient(e'))
              /\ UNCHANGED <<stdoutBuf, stdoutOut, ptyIn, ptyWin, fds>>
      /\ (pc = "master" /\ MasterFd \in rfds /\ child = "dead"
          /\ ptyOut # <<>> /\ e' = 0 /\ pc' # "kill")
           => (pc' = "m_write" /\ buf' = ptyOut) ]_vars

\* the master is ready with the child gone and nothing pending, while stdin
\* and the control channel are ready too
C14_Witness ==
  /\ pc = "master" /\ rfds = {MasterFd, StdinFd, CtlFd}
  /\ child = "dead" /\ ptyOut = <<>> /\ kills = <<>>
  /\ stdinQ # <<>> /\ ctlQ # <<>>

\* C15: in a cycle that does not end the loop, every descriptor the wait
\* reported ready is served in that cycle: a handler that goes back to the
\* wait by continue leaves no later ready descriptor unserved.
C15_NoReadySkipped ==
  [][ pc' = "continue" =>
        /\ pc \in {"master", "m_write", "m_flush"}
             => rfds \cap {StdinFd, CtlFd} = {}
        /\ pc \in {"stdin", "s_write"} => CtlFd \notin rfds ]_vars

\* C16: a read error that is neither EINTR nor EAGAIN, on the master, stdin
\* or the control channel, ends the loop in that cycle: the next statement
\* is the cleanup, and from there on no byte is forwarded in either
\* direction and no resize is applied.
C16_FatalErrorEndsLoop ==
  [][ /\ (pc \in {"master", "stdin", "ctl"} /\ e' # 0 /\ ~Transient(e'))
           => /\ pc' = "kill"
              /\ UNCHANGED <<ptyIn, stdoutBuf, stdoutOut, ptyWin, ioctls,
                             fds, ptyOut, stdinQ, ctlQ>>
      /\ pc \in CleanupPcs
           => /\ pc' \in CleanupPcs
              /\ UNCHANGED <<ptyIn, stdoutBuf, stdoutOut, ptyWin, ioctls,
                             ptyOut, stdinQ, ctlQ>> ]_vars

\* a device error on a read while the child is alive and input is waiting
C16_Witness ==
  /\ pc = "kill" /\ e = EIO /\ kills = <<>>
  /\ child = "running" /\ stdinQ # <<>>

\* C17: output is never held back across a wait: whenever the bridge stands
\* at the readiness wait, every byte read from the master so far has been
\* written to stdout and flushed.
C17_NoOutputHeldBack ==
  pc = "select" => (stdoutBuf = <<>> /\ stdoutOut = MasterConsumed)

\* C18: the watch list is [master, 0, 3] or [master, 0] from the start of
\* the loop on, and starts as the former; its one change is the removal of
\* descriptor 3, made by the zero-length read of descriptor 3 and by every
\* such read; once descriptor 3 is removed it is never reported ready, never
\* read and never put back, and no resize is applied any more.
C18_WatchSet ==
  /\ [](/\ fds \in {<<>>, WatchAll, WatchData}
        /\ pc \in TryPcs => fds # <<>>
        /\ fds = WatchData =>
             (CtlFd \notin rfds /\ pc # "c_ioctl" /\ winsize = <<>>))
  /\ [][ /\ fds' # fds =>
              \/ pc = "parent" /\ fds = <<>> /\ fds' = WatchAll
              \/ /\ pc = "ctl" /\ CtlFd \in rfds /\ ctlQ = <<>> /\ e' = 0
                 /\ fds = WatchAll /\ fds' = WatchData
         /\ (pc = "ctl" /\ CtlFd \in rfds /\ ctlQ = <<>> /\ e' = 0
             /\ pc' = "select") => fds' = WatchData
         /\ fds = WatchData =>
              /\ fds' = WatchData
              /\ IsPrefix(ctlQ, ctlQ')
              /\ UNCHANGED <<ptyWin, ioctls>> ]_vars

\* a record has arrived on descriptor 3 after its removal and stays unread
C18_Witness ==
  /\ fds = WatchData /\ pc = "stdin" /\ ctlQ # <<>> /\ ptyWin = <<0, 0>>
  /\ kills = <<>>

====
